---- MODULE Spec2Model ----
(***************************************************************************)
(* Gradient estimators for discrete latent variable models (lvmhelpers):   *)
(* ScoreFunctionEstimator, BitVectorScoreFunctionEstimator (sfe.py) and    *)
(* NVIL, BitVectorNVIL (nvil.py), together with SFEDeterministicWrapper.   *)
(*                                                                         *)
(* Tensor values are exact rationals <<numerator, denominator>>; the       *)
(* rounding of floating point arithmetic is not modelled.  A tensor also   *)
(* carries the set of producers its autograd graph reaches (field g), so   *)
(* detach() is observable.  The encoder, the decoder, the loss function    *)
(* and the baseline network are callers' code: their outputs are inputs    *)
(* of a forward pass, drawn from small sets.                               *)
(***************************************************************************)
EXTENDS Integers, Sequences, FiniteSets, TLC

\* ------------------------------------------------------------- bounds
\* Number of forward passes of the estimator instance that are explored.
MaxPasses == 3
\* Batch size of the generated batches.
BatchSize == 2
\* Number of forward calls of the deterministic wrapper that are explored.
MaxWrapperCalls == 2

\* ---------------------------------------------------- exact arithmetic
Abs(x) == IF x < 0 THEN -x ELSE x

RECURSIVE GCD(_, _)
GCD(a, b) == IF b = 0 THEN a ELSE GCD(b, a % b)

\* The rational n/d in lowest terms with a positive denominator.
Rat(n, d) ==
    LET s == IF d < 0 THEN -1 ELSE 1
        g == GCD(Abs(n), Abs(d))
    IN  <<(s * n) \div g, (s * d) \div g>>

Num(n) == <<n, 1>>

RAdd(x, y) == Rat(x[1] * y[2] + y[1] * x[2], x[2] * y[2])
RSub(x, y) == Rat(x[1] * y[2] - y[1] * x[2], x[2] * y[2])
RMul(x, y) == Rat(x[1] * y[1], x[2] * y[2])
RDiv(x, y) == Rat(x[1] * y[2], x[2] * y[1])
RNeg(x) == <<-x[1], x[2]>>

RECURSIVE RSum(_)
RSum(s) == IF s = <<>> THEN Num(0) ELSE RAdd(Head(s), RSum(Tail(s)))

\* The sequence <<f[1], ..., f[n]>> of a function on 1..n.
RECURSIVE Tup(_, _)
Tup(f, n) == IF n = 0 THEN <<>> ELSE Append(Tup(f, n - 1), f[n])

\* ------------------------------------------------------------ tensors
\* kind "tensor": a torch tensor of shape <<>> (0-dim) or <<n>>;
\* kind "float":  a Python float (it has no mean attribute);
\* kind "object": any other Python object (a distribution).
\* v holds the elements (one element for a 0-dim tensor or a float),
\* g the producers whose parameters the autograd graph of the value reaches.
Tensor(shape, v, g) == [kind |-> "tensor", shape |-> shape, v |-> v, g |-> g]
Vec(v, g) == Tensor(<<Len(v)>>, v, g)
Scalar(x, g) == Tensor(<<>>, <<x>>, g)
PyFloat(x) == [kind |-> "float", shape |-> <<>>, v |-> <<x>>, g |-> {}]
PyObject(name) == [kind |-> "object", shape |-> <<>>, v |-> <<>>, g |-> {name}]

\* torch.zeros(1)
Zeros1 == Vec(<<Num(0)>>, {})

\* Tensor.detach(): same value, no autograd graph.
Detach(t) == [t EXCEPT !.g = {}]

\* Broadcast shape of an elementwise operation.
BroadcastShape(a, b) ==
    IF a.shape = <<>> THEN b.shape
    ELSE IF b.shape = <<>> THEN a.shape
    ELSE IF a.shape[1] >= b.shape[1] THEN a.shape ELSE b.shape

\* The operation op on two elements.
ROp(op, x, y) ==
    IF op = "+" THEN RAdd(x, y)
    ELSE IF op = "-" THEN RSub(x, y)
    ELSE IF op = "*" THEN RMul(x, y)
    ELSE RDiv(x, y)

\* Elementwise binary operation with broadcasting of one-element operands.
Elementwise(op, a, b) ==
    LET shape == BroadcastShape(a, b)
        n == IF shape = <<>> THEN 1 ELSE shape[1]
        at(t, i) == t.v[IF Len(t.v) = 1 THEN 1 ELSE i]
    IN  [kind  |-> IF a.kind = "float" /\ b.kind = "float" THEN "float" ELSE "tensor",
         shape |-> shape,
         v     |-> Tup([i \in 1..n |-> ROp(op, at(a, i), at(b, i))], n),
         g     |-> a.g \cup b.g]

TAdd(a, b) == Elementwise("+", a, b)
TSub(a, b) == Elementwise("-", a, b)
TMul(a, b) == Elementwise("*", a, b)
TDiv(a, b) == Elementwise("/", a, b)
TNeg(a) == [a EXCEPT !.v = Tup([i \in DOMAIN a.v |-> RNeg(a.v[i])], Len(a.v))]

\* Tensor.mean(): the 0-dim tensor holding the mean of the elements.
Mean(t) == Scalar(RDiv(RSum(t.v), Num(Len(t.v))), t.g)

\* hasattr(v, 'mean')
HasMean(x) == x.kind = "tensor"

\* --------------------------------------------------------------- state
VARIABLES
    kind,                   \* the estimator class of the instance
    baseline_type,          \* self.encoder.baseline_type (SFE wrappers)
    encoder_entropy_coeff,  \* self.encoder_entropy_coeff
    decoder_entropy_coeff,  \* self.decoder_entropy_coeff
    decoder,                \* which decoder self.decoder is
    training,               \* self.training (torch.nn.Module)
    mean_baseline,          \* self.mean_baseline
    n_points,               \* self.n_points
    passes,                 \* number of forward passes made so far
    trainCount,             \* history: number of training-mode passes under 'runavg'
    trainSum,               \* history: sum of the batch-mean losses of those passes
    result,                 \* outcome of the last forward pass
    agent,                  \* SFEDeterministicWrapper: the wrapped agent, input -> output
    agentParams,            \* SFEDeterministicWrapper: number of parameters of the module
    wcalls                  \* SFEDeterministicWrapper: outcomes of its forward calls

estVars == <<kind, baseline_type, encoder_entropy_coeff, decoder_entropy_coeff,
             decoder, training, mean_baseline, n_points, passes, trainCount,
             trainSum, result>>
wrapVars == <<agent, agentParams, wcalls>>
vars == <<kind, baseline_type, encoder_entropy_coeff, decoder_entropy_coeff,
          decoder, training, mean_baseline, n_points, passes, trainCount,
          trainSum, result, agent, agentParams, wcalls>>

SFEKinds == {"ScoreFunctionEstimator", "BitVectorScoreFunctionEstimator"}
NVILKinds == {"NVIL", "BitVectorNVIL"}
BitVectorKinds == {"BitVectorScoreFunctionEstimator", "BitVectorNVIL"}

\* ------------------------------------------- pieces of the forward pass

\* Tensor.sum(dim=1) of a [batch, bits] tensor given as a sequence of rows.
SumDim1(rows, g) == Vec(Tup([i \in DOMAIN rows |-> RSum(rows[i])], Len(rows)), g)

\* sfe.py 107-111: the decoder's sample log-probabilities.
DecoderSampleLogProbs(in) ==
    IF in.dec_dims # 1 THEN in.dec_cat_log_prob ELSE in.dec_log_prob

\* The local variable baseline before any assignment to it.
Unbound == [kind |-> "unbound", shape |-> <<>>, v |-> <<>>, g |-> {}]

\* Faulty variant: the update runs whatever the mode of the module.
UpdatesRunAvgInAnyMode(isTraining, btype) == btype = "runavg"

\* sfe.py 135 and 242: the guard of the running-average update.
UpdatesRunAvg(isTraining, btype) == isTraining /\ btype = "runavg"

\* sfe.py 136 and 243.
NextNPoints(n) == n + 1

\* Faulty variant: an exponential moving average instead of the incremental mean.
NextMeanBaselineHalfway(mb, loss, n) ==
    TAdd(mb, TDiv(TSub(Mean(Detach(loss)), mb), PyFloat(Num(2))))

\* sfe.py 137-138 and 244-245, with n the n_points already incremented.
NextMeanBaseline(mb, loss, n) ==
    TAdd(mb, TDiv(TSub(Mean(Detach(loss)), mb), PyFloat(Num(n))))

\* Faulty variant: the running mean is updated before it is read as the baseline.
SFEBaselineAfterUpdate(btype, mb, in) ==
    IF btype = "runavg"
    THEN (IF training THEN NextMeanBaseline(mb, in.loss, n_points + 1) ELSE mb)
    ELSE IF btype = "sample" THEN in.alt_loss
    ELSE Unbound

\* Faulty variant: an unsupported baseline_type falls back to the running mean.
SFEBaselineDefaulting(btype, mb, in) ==
    IF btype = "sample" THEN in.alt_loss ELSE mb

\* sfe.py 113-123 and 225-235: the baseline of the SFE estimators.
SFEBaseline(btype, mb, in) ==
    IF btype = "runavg" THEN mb
    ELSE IF btype = "sample" THEN in.alt_loss
    ELSE Unbound

\* sfe.py 126 and 237: the factor that multiplies the log-probabilities.
SFEAdvantage(loss, baseline) == TSub(Detach(loss), baseline)

\* sfe.py 125-128.
SFEPolicyLoss(loss, baseline, enc_lp, dec_lp) ==
    Mean(TMul(SFEAdvantage(loss, baseline), TAdd(enc_lp, dec_lp)))

\* sfe.py 129-133.
SFEEntropyLoss(enc_ent, dec_ent, ec, dc) ==
    TNeg(TAdd(TMul(Mean(enc_ent), PyFloat(ec)), TMul(Mean(dec_ent), PyFloat(dc))))

\* sfe.py 140.
SFEFullLoss(policy_loss, entropy_loss, loss) ==
    TAdd(TAdd(policy_loss, entropy_loss), Mean(loss))

\* sfe.py 237.
BitVectorSFEPolicyLoss(loss, baseline, enc_lp) ==
    TMul(SFEAdvantage(loss, baseline), enc_lp)

\* sfe.py 238.
BitVectorEntropyLoss(enc_ent, ec) == TMul(TNeg(enc_ent), PyFloat(ec))

\* sfe.py 240.
BitVectorSFEFullLoss(policy_loss, entropy_loss, loss) ==
    Mean(TAdd(TAdd(policy_loss, entropy_loss), loss))

\* sfe.py 142-144, nvil.py 100-102: reduce what has a mean.
ReduceLogs(logs) ==
    [k \in DOMAIN logs |-> IF HasMean(logs[k]) THEN Mean(logs[k]) ELSE logs[k]]

\* Faulty variant: the logged baseline is the running mean the pass was entered with.
SFELogsBeforeUpdate(logs, mb, loss, enc_ent, dec_ent) ==
    ("baseline" :> mean_baseline) @@ ("loss" :> Mean(loss)) @@
    ("encoder_entropy" :> Mean(enc_ent)) @@
    ("decoder_entropy" :> Mean(dec_ent)) @@
    [k \in DOMAIN logs |-> IF HasMean(logs[k]) THEN Mean(logs[k]) ELSE logs[k]]

\* sfe.py 146-149 and 251-254.
SFELogs(logs, mb, loss, enc_ent, dec_ent) ==
    ("baseline" :> mb) @@ ("loss" :> Mean(loss)) @@
    ("encoder_entropy" :> Mean(enc_ent)) @@
    ("decoder_entropy" :> Mean(dec_ent)) @@ ReduceLogs(logs)

\* sfe.py 255, nvil.py 180.
WithDistr(logs) == ("distr" :> PyObject("Bernoulli")) @@ logs

\* nvil.py 90-92: the learned baseline, one value per example:
\* baseline.reshape(-1, loss.size(0)).mean(dim=0).
NVILBaseline(in) ==
    LET b == in.nn_baseline
        n == Len(in.loss.v)
        rows == Len(b.v) \div n
    IN  Vec(Tup([j \in 1..n |->
                  RDiv(RSum(Tup([r \in 1..rows |-> b.v[(r - 1) * n + j]], rows)),
                       Num(rows))], n), b.g)

\* nvil.py 165: the learned baseline of the bit-vector estimator.
BitVectorNVILBaseline(in) == in.nn_baseline

\* nvil.py 94 and 167: the factor that multiplies the log-probabilities.
NVILAdvantage(loss, baseline) == Detach(TSub(loss, baseline))

\* nvil.py 94.
NVILPolicyLoss(loss, baseline, enc_lp) ==
    Mean(TMul(NVILAdvantage(loss, baseline), enc_lp))

\* nvil.py 95.
NVILEntropyLoss(enc_ent, ec) == TNeg(TMul(Mean(enc_ent), PyFloat(ec)))

\* nvil.py 96.
NVILMse(loss, baseline) ==
    LET d == TSub(Detach(loss), baseline) IN Mean(TMul(d, d))

\* nvil.py 98.
NVILFullLoss(policy_loss, loss, mse, entropy_loss) ==
    TAdd(TAdd(TAdd(policy_loss, Mean(loss)), mse), entropy_loss)

\* nvil.py 167.
BitVectorNVILPolicyLoss(loss, baseline, enc_lp) ==
    TMul(NVILAdvantage(loss, baseline), enc_lp)

\* nvil.py 169.
BitVectorNVILMse(loss, baseline) ==
    LET d == TSub(Detach(loss), baseline) IN TMul(d, d)

\* nvil.py 171.
BitVectorNVILFullLoss(policy_loss, loss, mse, entropy_loss) ==
    Mean(TAdd(TAdd(TAdd(policy_loss, loss), mse), entropy_loss))

\* nvil.py 104-106 and 177-179.
NVILLogs(logs, baseline, loss, enc_ent) ==
    ("baseline" :> baseline) @@ ("loss" :> Mean(loss)) @@
    ("encoder_entropy" :> Mean(enc_ent)) @@ ReduceLogs(logs)

\* ------------------------------------------- the order of the statements
\* Faulty variant: the resampled rollout runs the encoder again.
SFECallsReencoding(btype) ==
    <<"encoder", "decoder", "loss">> \o
    (IF btype = "runavg" THEN <<"mean_baseline">>
     ELSE IF btype = "sample" THEN <<"encoder", "decoder", "loss">>
     ELSE <<>>)

\* sfe.py 91-123 and 207-235: the collaborators' calls up to the baseline.
SFECalls(btype) ==
    <<"encoder", "decoder", "loss">> \o
    (IF btype = "runavg" THEN <<"mean_baseline">>
     ELSE IF btype = "sample" THEN <<"decoder", "loss">>
     ELSE <<>>)

\* sfe.py 125-151.
SFESteps(updates) ==
    <<"policy_loss", "entropy_loss">> \o
    (IF updates THEN <<"update">> ELSE <<>>) \o <<"full_loss", "log">>

\* sfe.py 237-257.
BitVectorSFESteps(updates) ==
    <<"policy_loss", "entropy_loss", "full_loss">> \o
    (IF updates THEN <<"update">> ELSE <<>>) \o <<"log">>

\* nvil.py 73-108 and 148-182.
NVILCalls ==
    <<"encoder", "decoder", "loss", "baseline_nn",
      "policy_loss", "entropy_loss", "mse", "full_loss", "log">>

\* ------------------------------------------------- the forward methods
NoValue == [kind |-> "none", shape |-> <<>>, v |-> <<>>, g |-> {}]

\* A forward pass that raised: nothing is returned, nothing was assigned.
Raised(error, calls, in) ==
    [status |-> error, loss |-> NoValue, log |-> <<>>, policy_loss |-> NoValue,
     advantage |-> NoValue, baseline |-> NoValue, log_probs |-> NoValue,
     mean_baseline |-> mean_baseline, n_points |-> n_points, updated |-> FALSE,
     calls |-> calls, in |-> in, training |-> training,
     pre_mean |-> mean_baseline, pre_n |-> n_points]

\* A forward pass that returned {'loss': full_loss, 'log': logs}.
Returned(full_loss, logs, policy_loss, advantage, baseline, log_probs, mb, n, updated, calls, in) ==
    [status |-> "ok", loss |-> full_loss, log |-> logs, policy_loss |-> policy_loss,
     advantage |-> advantage, baseline |-> baseline, log_probs |-> log_probs,
     mean_baseline |-> mb, n_points |-> n, updated |-> updated,
     calls |-> calls, in |-> in, training |-> training,
     pre_mean |-> mean_baseline, pre_n |-> n_points]

\* sfe.py 90-151: ScoreFunctionEstimator.forward.
SFEOutcome(in) ==
    LET loss == in.loss
        enc_lp == in.enc_log_prob
        dec_lp == DecoderSampleLogProbs(in)
        baseline == SFEBaseline(baseline_type, mean_baseline, in)
        policy_loss == SFEPolicyLoss(loss, baseline, enc_lp, dec_lp)
        entropy_loss == SFEEntropyLoss(in.enc_entropy, in.dec_entropy,
                                       encoder_entropy_coeff, decoder_entropy_coeff)
        updates == UpdatesRunAvg(training, baseline_type)
        n == IF updates THEN NextNPoints(n_points) ELSE n_points
        mb == IF updates THEN NextMeanBaseline(mean_baseline, loss, n)
              ELSE mean_baseline
        full_loss == SFEFullLoss(policy_loss, entropy_loss, loss)
        logs == SFELogs(in.logs, mb, loss, in.enc_entropy, in.dec_entropy)
    IN  IF baseline = Unbound
        THEN Raised("UnboundLocalError", SFECalls(baseline_type), in)
        ELSE Returned(full_loss, logs, policy_loss, SFEAdvantage(loss, baseline),
                      baseline, TAdd(enc_lp, dec_lp), mb, n, updates,
                      SFECalls(baseline_type) \o SFESteps(updates), in)

\* sfe.py 206-257: BitVectorScoreFunctionEstimator.forward.
BitVectorSFEOutcome(in) ==
    LET loss == in.loss
        enc_lp == SumDim1(in.enc_bit_log_prob, {"encoder"})
        baseline == SFEBaseline(baseline_type, mean_baseline, in)
        policy_loss == BitVectorSFEPolicyLoss(loss, baseline, enc_lp)
        entropy_loss == BitVectorEntropyLoss(in.enc_entropy, encoder_entropy_coeff)
        full_loss == BitVectorSFEFullLoss(policy_loss, entropy_loss, loss)
        updates == UpdatesRunAvg(training, baseline_type)
        n == IF updates THEN NextNPoints(n_points) ELSE n_points
        mb == IF updates THEN NextMeanBaseline(mean_baseline, loss, n)
              ELSE mean_baseline
        logs == WithDistr(SFELogs(in.logs, mb, loss, in.enc_entropy, in.dec_entropy))
    IN  IF baseline = Unbound
        THEN Raised("UnboundLocalError", SFECalls(baseline_type), in)
        ELSE Returned(full_loss, logs, policy_loss, SFEAdvantage(loss, baseline),
                      baseline, enc_lp, mb, n, updates,
                      SFECalls(baseline_type) \o BitVectorSFESteps(updates), in)

\* nvil.py 72-108: NVIL.forward.
NVILOutcome(in) ==
    LET loss == in.loss
        enc_lp == in.enc_log_prob
        baseline == NVILBaseline(in)
        policy_loss == NVILPolicyLoss(loss, baseline, enc_lp)
        entropy_loss == NVILEntropyLoss(in.enc_entropy, encoder_entropy_coeff)
        mse == NVILMse(loss, baseline)
        full_loss == NVILFullLoss(policy_loss, loss, mse, entropy_loss)
        logs == NVILLogs(in.logs, baseline, loss, in.enc_entropy)
    IN  Returned(full_loss, logs, policy_loss, NVILAdvantage(loss, baseline),
                 baseline, enc_lp, mean_baseline, n_points, FALSE, NVILCalls, in)

\* nvil.py 147-182: BitVectorNVIL.forward.
BitVectorNVILOutcome(in) ==
    LET loss == in.loss
        enc_lp == SumDim1(in.enc_bit_log_prob, {"encoder"})
        baseline == BitVectorNVILBaseline(in)
        policy_loss == BitVectorNVILPolicyLoss(loss, baseline, enc_lp)
        entropy_loss == BitVectorEntropyLoss(in.enc_entropy, encoder_entropy_coeff)
        mse == BitVectorNVILMse(loss, baseline)
        full_loss == BitVectorNVILFullLoss(policy_loss, loss, mse, entropy_loss)
        logs == WithDistr(NVILLogs(in.logs, baseline, loss, in.enc_entropy))
    IN  Returned(full_loss, logs, policy_loss, NVILAdvantage(loss, baseline),
                 baseline, enc_lp, mean_baseline, n_points, FALSE, NVILCalls, in)

\* ------------------------------------------ what the collaborators return
\* Per-example task losses of the generated batches of n examples: all 0,
\* all 1, and 0 and 1 alternating, from either.
LossBatches(n) ==
    { Tup([i \in 1..n |-> Num(0)], n), Tup([i \in 1..n |-> Num(1)], n),
      Tup([i \in 1..n |-> Num(i % 2)], n), Tup([i \in 1..n |-> Num((i + 1) % 2)], n) }

\* Entropy coefficients an instance is constructed with (0.0 is the default).
CoeffPairs == {<<Num(0), Num(0)>>, <<Num(1), Num(2)>>}

\* encoder.baseline_type values, one of them unsupported.
BaselineTypes == {"runavg", "sample", "median"}

LossGraph == {"decoder", "loss_fun"}

\* The loss function's own diagnostics: a per-example tensor, a 0-dim tensor
\* and a Python number.
LossLogs(loss) ==
    ("acc" :> Detach(Vec(loss, {}))) @@ ("nll" :> Scalar(RSum(loss), {})) @@
    ("n" :> PyFloat(Num(Len(loss))))

\* Categorical encoder: log-probability of the sample and entropy, per example.
EncoderOutputs(n) ==
    { [lp |-> Tup([i \in 1..n |-> Num(-1)], n), ent |-> Tup([i \in 1..n |-> Num(1)], n)],
      [lp |-> Tup([i \in 1..n |-> Num(-i)], n), ent |-> Tup([i \in 1..n |-> Rat(i, 2)], n)] }

\* Bernoulli encoder: per-bit log-probabilities of the sample, summed entropy.
BitEncoderOutputs(n) ==
    { [lp |-> Tup([i \in 1..n |-> <<Num(-1), Num(-1)>>], n), ent |-> Tup([i \in 1..n |-> Num(1)], n)],
      [lp |-> Tup([i \in 1..n |-> <<Num(-i), Rat(-1, 2)>>], n), ent |-> Tup([i \in 1..n |-> Rat(i, 2)], n)] }

\* Decoders an instance is constructed with: an SFEDeterministicWrapper
\* (zeros of shape [1]), a decoder returning per-example log-probabilities,
\* a decoder returning [batch, classes] logits, for which cat is what
\* Categorical(logits=...).log_prob(decoder_output) yields, and the decoders
\* of the NVIL estimators, which return their output only.
SFEDecoders == {"deterministic", "log_prob", "logits"}

DecoderOutput(d, n) ==
    IF d = "deterministic"
    THEN [dims |-> 1, lp |-> Zeros1, cat |-> NoValue, ent |-> Zeros1]
    ELSE IF d = "log_prob"
    THEN [dims |-> 1, lp |-> Vec(Tup([i \in 1..n |-> Num(-i)], n), {"decoder"}),
          cat |-> NoValue, ent |-> Vec(Tup([i \in 1..n |-> Num(i)], n), {"decoder"})]
    ELSE IF d = "logits"
    THEN [dims |-> 2, lp |-> NoValue,
          cat |-> Vec(Tup([i \in 1..n |-> Num(-2)], n), {"decoder"}),
          ent |-> Vec(Tup([i \in 1..n |-> Num(1)], n), {"decoder"})]
    ELSE [dims |-> 1, lp |-> NoValue, cat |-> NoValue, ent |-> NoValue]

\* Outputs of encoder.baseline_nn: one value per example.
NNBaselines(n) ==
    { Vec(Tup([i \in 1..n |-> Num(1)], n), {"baseline_nn"}),
      Vec(Tup([i \in 1..n |-> Rat(i, 2)], n), {"baseline_nn"}) }

\* Outputs of encoder.baseline_nn when the encoder input holds two rows of
\* n examples.
TwoRowNNBaselines(n) ==
    { Vec(Tup([i \in 1..(n + n) |-> Num(i)], n + n), {"baseline_nn"}) }

Batch(loss, enc_lp, enc_bit_lp, enc_ent, dec, alt_loss, nn_baseline) ==
    [loss |-> Vec(loss, LossGraph), logs |-> LossLogs(loss),
     enc_log_prob |-> enc_lp, enc_bit_log_prob |-> enc_bit_lp,
     enc_entropy |-> Vec(enc_ent, {"encoder"}),
     dec_dims |-> dec.dims, dec_log_prob |-> dec.lp, dec_cat_log_prob |-> dec.cat,
     dec_entropy |-> dec.ent, alt_loss |-> alt_loss, nn_baseline |-> nn_baseline]

\* The loss of the resampled rollout, when the baseline policy runs one.
AltLosses(n, btype) ==
    IF btype = "sample"
    THEN { Vec(Tup([i \in 1..n |-> Num(1)], n), LossGraph),
           Vec(Tup([i \in 1..n |-> Rat(i, 3)], n), LossGraph) }
    ELSE {NoValue}

\* The end-to-end scenario: batch of 4, loss [1.0, 2.0, 0.5, 3.0], z = [0, 2, 1, 0].
ScenarioLoss == <<Num(1), Num(2), Rat(1, 2), Num(3)>>
ScenarioLogProb == <<Num(-1), Num(-3), Num(-2), Num(-1)>>
ScenarioBatch ==
    Batch(ScenarioLoss, Vec(ScenarioLogProb, {"encoder"}), <<>>,
          <<Num(1), Num(1), Num(1), Num(1)>>,
          DecoderOutput("deterministic", Len(ScenarioLoss)), NoValue, NoValue)

\* The batches a forward pass of each estimator may be given.
SFEBatches(btype, d) ==
    { Batch(l, Vec(e.lp, {"encoder"}), <<>>, e.ent, DecoderOutput(d, BatchSize),
            a, NoValue) :
        l \in LossBatches(BatchSize), e \in EncoderOutputs(BatchSize),
        a \in AltLosses(BatchSize, btype) }
    \cup (IF btype = "runavg" /\ d = "deterministic" THEN {ScenarioBatch} ELSE {})

BitVectorSFEBatches(btype, d) ==
    { Batch(l, NoValue, e.lp, e.ent, DecoderOutput(d, BatchSize), a, NoValue) :
        l \in LossBatches(BatchSize), e \in BitEncoderOutputs(BatchSize),
        a \in AltLosses(BatchSize, btype) }

NVILBatches ==
    { Batch(l, Vec(e.lp, {"encoder"}), <<>>, e.ent,
            DecoderOutput("output", BatchSize), NoValue, b) :
        l \in LossBatches(BatchSize), e \in EncoderOutputs(BatchSize),
        b \in NNBaselines(BatchSize) \cup TwoRowNNBaselines(BatchSize) }

BitVectorNVILBatches ==
    { Batch(l, NoValue, e.lp, e.ent, DecoderOutput("output", BatchSize), NoValue, b) :
        l \in LossBatches(BatchSize), e \in BitEncoderOutputs(BatchSize),
        b \in NNBaselines(BatchSize) }

\* ------------------------------------------------------------- actions
NoResult ==
    [status |-> "none", loss |-> NoValue, log |-> <<>>, policy_loss |-> NoValue,
     advantage |-> NoValue, baseline |-> NoValue, log_probs |-> NoValue,
     mean_baseline |-> PyFloat(Num(0)), n_points |-> 0, updated |-> FALSE,
     calls |-> <<>>, in |-> NoValue, training |-> TRUE,
     pre_mean |-> PyFloat(Num(0)), pre_n |-> 0]

AgentInputs == {"x1", "x2"}
AgentOutputs == {"y1", "y2", "y3"}

\* sfe.py 74-88, 190-204, nvil.py 56-70, 131-145: __init__ of the estimators,
\* with the wrapper left aside.
Init ==
    /\ kind \in SFEKinds \cup NVILKinds
    /\ baseline_type \in (IF kind \in SFEKinds THEN BaselineTypes ELSE {"none"})
    /\ \E c \in CoeffPairs :
         /\ encoder_entropy_coeff = c[1]
         /\ decoder_entropy_coeff = c[2]
    /\ decoder \in (IF kind \in SFEKinds THEN SFEDecoders ELSE {"output"})
    /\ training = TRUE
    /\ mean_baseline = PyFloat(Num(0))
    /\ n_points = 0
    /\ passes = 0
    /\ trainCount = 0
    /\ trainSum = Num(0)
    /\ result = NoResult
    /\ agent = [x \in AgentInputs |-> "y1"]
    /\ agentParams = 1
    /\ wcalls = <<>>

\* What a forward pass leaves behind in the instance and returns.
Apply(outcome) ==
    /\ passes' = passes + 1
    /\ \E out \in {outcome} :
         /\ result' = out
         /\ mean_baseline' = out.mean_baseline
         /\ n_points' = out.n_points
         /\ trainCount' = IF training /\ baseline_type = "runavg" /\ out.status = "ok"
                          THEN trainCount + 1 ELSE trainCount
         /\ trainSum' = IF training /\ baseline_type = "runavg" /\ out.status = "ok"
                        THEN RAdd(trainSum, Mean(out.in.loss).v[1]) ELSE trainSum
    /\ UNCHANGED <<kind, baseline_type, encoder_entropy_coeff,
                   decoder_entropy_coeff, decoder, training>>
    /\ UNCHANGED wrapVars

SFEForward ==
    /\ kind = "ScoreFunctionEstimator"
    /\ passes < MaxPasses
    /\ \E in \in SFEBatches(baseline_type, decoder) : Apply(SFEOutcome(in))

BitVectorSFEForward ==
    /\ kind = "BitVectorScoreFunctionEstimator"
    /\ passes < MaxPasses
    /\ \E in \in BitVectorSFEBatches(baseline_type, decoder) : Apply(BitVectorSFEOutcome(in))

NVILForward ==
    /\ kind = "NVIL"
    /\ passes < MaxPasses
    /\ \E in \in NVILBatches : Apply(NVILOutcome(in))

BitVectorNVILForward ==
    /\ kind = "BitVectorNVIL"
    /\ passes < MaxPasses
    /\ \E in \in BitVectorNVILBatches : Apply(BitVectorNVILOutcome(in))

\* torch.nn.Module.train(): self.training = True.
Train ==
    /\ ~training
    /\ training' = TRUE
    /\ UNCHANGED <<kind, baseline_type, encoder_entropy_coeff, decoder_entropy_coeff,
                   decoder, mean_baseline, n_points, passes, trainCount, trainSum,
                   result>>
    /\ UNCHANGED wrapVars

\* torch.nn.Module.eval(): self.training = False.
Eval ==
    /\ training
    /\ training' = FALSE
    /\ UNCHANGED <<kind, baseline_type, encoder_entropy_coeff, decoder_entropy_coeff,
                   decoder, mean_baseline, n_points, passes, trainCount, trainSum,
                   result>>
    /\ UNCHANGED wrapVars

Next ==
    \/ SFEForward
    \/ BitVectorSFEForward
    \/ NVILForward
    \/ BitVectorNVILForward
    \/ Train
    \/ Eval

Spec == Init /\ [][Next]_vars

\* ------------------------------------------- SFEDeterministicWrapper
AgentParamCounts == {0, 1, 2}

\* sfe.py 67-70: SFEDeterministicWrapper.forward.  next(self.parameters())
\* raises StopIteration when the module holds no parameter.
DetWrapperOutcome(x) ==
    LET out == agent[x]
    IN  IF agentParams = 0
        THEN [input |-> x, status |-> "StopIteration", out |-> "none",
              log_prob |-> NoValue, entropy |-> NoValue]
        ELSE [input |-> x, status |-> "ok", out |-> out,
              log_prob |-> Zeros1, entropy |-> Zeros1]

DetWrapperForward ==
    /\ Len(wcalls) < MaxWrapperCalls
    /\ \E x \in AgentInputs : wcalls' = Append(wcalls, DetWrapperOutcome(x))
    /\ UNCHANGED <<agent, agentParams>>
    /\ UNCHANGED estVars

\* sfe.py 63-65: SFEDeterministicWrapper.__init__ around a deterministic agent.
WrapperInit ==
    /\ agent \in [AgentInputs -> AgentOutputs]
    /\ agentParams \in AgentParamCounts
    /\ wcalls = <<>>
    /\ kind = "ScoreFunctionEstimator"
    /\ baseline_type = "runavg"
    /\ encoder_entropy_coeff = Num(0)
    /\ decoder_entropy_coeff = Num(0)
    /\ decoder = "deterministic"
    /\ training = TRUE
    /\ mean_baseline = PyFloat(Num(0))
    /\ n_points = 0
    /\ passes = 0
    /\ trainCount = 0
    /\ trainSum = Num(0)
    /\ result = NoResult

WrapperNext == DetWrapperForward

WrapperSpec == WrapperInit /\ [][WrapperNext]_vars

\* ----------------------------------------------------------- properties
Val(t) == t.v[1]

\* The element of a batch tensor at example i, one-element tensors broadcast.
At(t, i) == t.v[IF Len(t.v) = 1 THEN 1 ELSE i]

\* The mean over the n examples of term[i], computed term by term.
MeanOf(term, n) == RDiv(RSum(Tup(term, n)), Num(n))

RunAvgInstance == kind \in SFEKinds /\ baseline_type = "runavg"

\* C1: under 'runavg', whatever the interleaving of training-mode and
\* evaluation-mode passes, n_points is the number of training-mode passes made
\* so far and mean_baseline is the arithmetic mean of their batch-mean losses
\* (0.0 when there was none).
C1_RunningMean ==
    RunAvgInstance =>
        /\ n_points = trainCount
        /\ Val(mean_baseline) =
             (IF trainCount = 0 THEN Num(0) ELSE RDiv(trainSum, Num(trainCount)))

\* Two training-mode passes and an evaluation-mode pass were made, and the
\* running mean is not zero.
C1_Witness ==
    /\ RunAvgInstance
    /\ trainCount = 2
    /\ passes = 3
    /\ Val(mean_baseline) # Num(0)

\* C2: a 'runavg' pass entered with mean_baseline = b, n_points = n subtracts
\* the pre-update b, one scalar, from every example's loss; in training mode
\* the state then becomes n + 1 and b + (m - b)/(n + 1), m the batch mean.
C2_PreUpdateBaseline ==
    (RunAvgInstance /\ result.status = "ok") =>
        LET b == Val(result.pre_mean)
            loss == result.in.loss
            n == Len(loss.v)
            m == MeanOf([i \in 1..n |-> loss.v[i]], n)
            weighted == [i \in 1..n |->
                           RMul(RSub(loss.v[i], b), At(result.log_probs, i))]
        IN  /\ result.baseline.shape = <<>>
            /\ result.baseline.v = <<b>>
            /\ \A i \in 1..n : result.advantage.v[i] = RSub(loss.v[i], b)
            /\ IF kind = "ScoreFunctionEstimator"
               THEN Val(result.policy_loss) = MeanOf(weighted, n)
               ELSE \A i \in 1..n : result.policy_loss.v[i] = weighted[i]
            /\ IF result.training
               THEN /\ n_points = result.pre_n + 1
                    /\ Val(mean_baseline) =
                         RAdd(b, RDiv(RSub(m, b), Num(result.pre_n + 1)))
               ELSE /\ n_points = result.pre_n
                    /\ mean_baseline = result.pre_mean

\* The end-to-end scenario: entered with mean_baseline = 0.5 and n_points = 2,
\* loss [1.0, 2.0, 0.5, 3.0]; mean_baseline becomes 0.5 + (1.625 - 0.5)/3.
C2_Witness ==
    /\ kind = "ScoreFunctionEstimator"
    /\ baseline_type = "runavg"
    /\ result.status = "ok"
    /\ result.training
    /\ result.in = ScenarioBatch
    /\ Val(result.pre_mean) = Rat(1, 2)
    /\ result.pre_n = 2
    /\ n_points = 3
    /\ Val(mean_baseline) = Rat(7, 8)
    /\ Val(result.policy_loss) = Rat(-15, 8)

StateChanged == <<mean_baseline, n_points>>' # <<mean_baseline, n_points>>

ForwardStep == passes' # passes

\* C3: a forward pass changes (mean_baseline, n_points) if and only if the
\* baseline policy is 'runavg' and the estimator is in training mode;
\* evaluation-mode passes, 'sample' passes and NVIL passes leave both unchanged.
C3_UpdateIffRunAvgTraining ==
    [][ StateChanged <=>
          (ForwardStep /\ kind \in SFEKinds /\ baseline_type = "runavg" /\ training)
      ]_vars

\* An evaluation-mode 'runavg' pass was made after a training-mode one and
\* left the state of the instance as it found it.
C3_Witness ==
    /\ RunAvgInstance
    /\ result.status = "ok"
    /\ ~result.training
    /\ result.pre_n >= 1
    /\ n_points = result.pre_n
    /\ mean_baseline = result.pre_mean

\* C4: with a baseline_type other than 'runavg' and 'sample', a forward pass
\* of an SFE estimator raises: it returns no {'loss', 'log'} and leaves
\* mean_baseline and n_points unchanged, in training and in evaluation mode.
C4_UnsupportedBaselineFails ==
    [][ (ForwardStep /\ kind \in SFEKinds /\ baseline_type \notin {"runavg", "sample"})
        => /\ result'.status \notin {"ok", "none"}
           /\ result'.loss = NoValue
           /\ result'.log = <<>>
           /\ ~StateChanged
      ]_vars

\* An evaluation-mode pass with the unsupported baseline_type has raised.
C4_Witness ==
    /\ kind \in SFEKinds
    /\ baseline_type = "median"
    /\ result.status = "UnboundLocalError"
    /\ ~result.training
    /\ passes >= 2

\* C5: under every baseline policy the factor (loss - baseline) that
\* multiplies the log-probabilities carries no gradient path, so the gradient
\* of policy_loss reaches only the producers of the log-probabilities.
C5_BaselineDetached ==
    result.status = "ok" =>
        /\ result.advantage.g = {}
        /\ result.policy_loss.g \subseteq result.log_probs.g

\* C6: the returned loss is policy_loss + mean(loss) + entropy_loss
\* (+ mse for NVIL), with policy_loss the mean of (loss - baseline) times
\* (encoder log-probability + decoder log-probability for both SFE variants),
\* entropy_loss = -(mean encoder entropy * encoder coefficient + mean decoder
\* entropy * decoder coefficient for both SFE variants) and mse the mean of
\* (loss - baseline)^2.
C6_LossComposition ==
    result.status = "ok" =>
        LET in == result.in
            n == Len(in.loss.v)
            sfe == kind \in SFEKinds
            enc_lp == IF kind \in BitVectorKinds
                      THEN [i \in 1..n |-> RSum(in.enc_bit_log_prob[i])]
                      ELSE [i \in 1..n |-> in.enc_log_prob.v[i]]
            dec_lp == IF in.dec_dims # 1 THEN in.dec_cat_log_prob ELSE in.dec_log_prob
            lp == [i \in 1..n |->
                     IF sfe THEN RAdd(enc_lp[i], At(dec_lp, i)) ELSE enc_lp[i]]
            adv == [i \in 1..n |-> RSub(in.loss.v[i], At(result.baseline, i))]
            policy == MeanOf([i \in 1..n |-> RMul(adv[i], lp[i])], n)
            enc_term == RMul(MeanOf([i \in 1..n |-> in.enc_entropy.v[i]], n),
                             encoder_entropy_coeff)
            dec_term == IF sfe
                        THEN RMul(MeanOf([i \in 1..n |-> At(in.dec_entropy, i)], n),
                                  decoder_entropy_coeff)
                        ELSE Num(0)
            entropy == RNeg(RAdd(enc_term, dec_term))
            mse == IF sfe THEN Num(0)
                   ELSE MeanOf([i \in 1..n |-> RMul(adv[i], adv[i])], n)
            mean_loss == MeanOf([i \in 1..n |-> in.loss.v[i]], n)
        IN  /\ result.loss.shape = <<>>
            /\ Val(result.loss) = RAdd(RAdd(RAdd(policy, mean_loss), entropy), mse)

\* C7: every tensor-valued entry of the returned log is reduced to its mean:
\* no per-example tensor of batch length appears in it.
C7_LogReduced ==
    result.status = "ok" =>
        \A k \in DOMAIN result.log :
            result.log[k].kind = "tensor" => result.log[k].shape = <<>>

\* C8: for any wrapped agent and any input, SFEDeterministicWrapper.forward
\* returns the agent's output unchanged with a log-probability and an entropy
\* that are zero, of shape [1]; two calls on one input return the same output.
C8_DeterministicWrapper ==
    \A i \in DOMAIN wcalls :
        /\ wcalls[i].status = "ok"
        /\ wcalls[i].out = agent[wcalls[i].input]
        /\ wcalls[i].log_prob = Zeros1
        /\ wcalls[i].entropy = Zeros1
        /\ \A j \in DOMAIN wcalls :
               wcalls[j].input = wcalls[i].input => wcalls[j].out = wcalls[i].out

Count(seq, x) == Cardinality({i \in DOMAIN seq : seq[i] = x})

CollaboratorSteps == {"encoder", "decoder", "loss", "baseline_nn", "mean_baseline"}

\* C9: in a forward pass the collaborators are invoked in the order encoder,
\* decoder, loss function, baseline provider, and only then are the terms
\* combined and the running average updated; the encoder runs once, the
\* decoder and the loss function once each, twice each under 'sample', the
\* second decoder-then-loss pair after the first.
C9_CallOrder ==
    result.status # "none" =>
        LET calls == result.calls
            twice == kind \in SFEKinds /\ baseline_type = "sample"
        IN  /\ SubSeq(calls, 1, 3) = <<"encoder", "decoder", "loss">>
            /\ Count(calls, "encoder") = 1
            /\ Count(calls, "decoder") = (IF twice THEN 2 ELSE 1)
            /\ Count(calls, "loss") = (IF twice THEN 2 ELSE 1)
            /\ twice => SubSeq(calls, 4, 5) = <<"decoder", "loss">>
            /\ kind \in NVILKinds => calls[4] = "baseline_nn"
            /\ RunAvgInstance => calls[4] = "mean_baseline"
            /\ \A i, j \in DOMAIN calls :
                   (calls[i] \in CollaboratorSteps /\ calls[j] \notin CollaboratorSteps)
                       => i < j
            /\ Count(calls, "update") =
                   (IF RunAvgInstance /\ result.training THEN 1 ELSE 0)

\* A 'sample' pass has returned: decoder and loss function ran twice.
C9_Witness ==
    /\ kind \in SFEKinds
    /\ baseline_type = "sample"
    /\ result.status = "ok"
    /\ Count(result.calls, "decoder") = 2

\* C10: in both SFE estimators the 'baseline' entry of the returned log is
\* mean_baseline as it stands at the end of the pass: the post-update running
\* mean in a training-mode 'runavg' pass, the value used in an evaluation-mode
\* 'runavg' pass, the never-updated mean_baseline under 'sample'.
C10_LoggedBaseline ==
    (kind \in SFEKinds /\ result.status = "ok") =>
        LET logged == result.log["baseline"]
            loss == result.in.loss
            n == Len(loss.v)
            m == MeanOf([i \in 1..n |-> loss.v[i]], n)
            b == Val(result.pre_mean)
        IN  /\ logged = mean_baseline
            /\ (baseline_type = "runavg" /\ result.training) =>
                   Val(logged) = RAdd(b, RDiv(RSub(m, b), Num(result.pre_n + 1)))
            /\ (baseline_type = "runavg" /\ ~result.training) =>
                   logged = result.baseline
            /\ baseline_type = "sample" =>
                   /\ logged = PyFloat(Num(0))
                   /\ logged # result.baseline

\* A training-mode 'runavg' pass logged a baseline that differs from the one
\* it subtracted.
C10_Witness ==
    /\ RunAvgInstance
    /\ result.status = "ok"
    /\ result.training
    /\ result.log["baseline"] = mean_baseline
    /\ Val(result.log["baseline"]) # Val(result.baseline)

====
